---- MODULE Spec2Model ----
(***************************************************************************)
(* EF Memory: the append-only event log (events.jsonl), its latest-wins    *)
(* reader (lib/events_io.py) and the one-way sync engine (lib/sync.py)     *)
(* that projects the log into the secondary store (vectors.db).            *)
(*                                                                         *)
(* A log line is a record [kind, id, ver, dep]:                            *)
(*   kind = "entry"   a JSON object with a truthy id, e.g. {"id":"a",...}  *)
(*   kind = "blank"   an empty or whitespace-only line                     *)
(*   kind = "badjson" text json.loads rejects (json.JSONDecodeError)       *)
(*   kind = "noid"    a JSON object without an "id" key                    *)
(*   kind = "nonobj"  JSON that is not an object, e.g. []  (no .get)       *)
(* ver stands for the content of the version (title, text, created_at);    *)
(* dep is its "deprecated" field.                                          *)
(***************************************************************************)
EXTENDS Integers, Sequences, FiniteSets, TLC

\* ---------------------------------------------------------------- bounds
MaxLines == 3
MaxSyncLines == 2
MaxBatch == 2

Ids == {"a", "b"}
Vers == {1, 2}

EntryLines == [kind : {"entry"}, id : Ids, ver : Vers, dep : BOOLEAN]
JunkLine(k) == [kind |-> k, id |-> "-", ver |-> 0, dep |-> FALSE]
JunkKinds == {"blank", "badjson", "noid", "nonobj"}
Lines == EntryLines \cup {JunkLine(k) : k \in JunkKinds}

\* The lines the sync runs are explored over: a deprecating version repeats
\* the first text, and of the lines without an entry one is skipped and
\* one makes the reader raise.
SyncLines ==
    {l \in EntryLines : l.dep => l.ver = 1}
    \cup {JunkLine("blank"), JunkLine("nonobj")}

\* ------------------------------------------------------------ file bytes
\* A blank line is its newline; every other line is a two-byte body and
\* its newline (bytes are counted in units of the shortest body).
LineBytes(l) == IF l.kind = "blank" THEN 1 ELSE 3

RECURSIVE Offset(_, _)
\* Byte position of the start of 0-based line k (k = Len: the file size).
Offset(lines, k) == IF k = 0 THEN 0 ELSE Offset(lines, k - 1) + LineBytes(lines[k])

FileSize(lines) == Offset(lines, Len(lines))

\* ------------------------------------------------------------ events_io
NoEntry == [present |-> FALSE, ver |-> 0, dep |-> FALSE, line |-> -1]
EmptyEntries == [i \in Ids |-> NoEntry]

\* What json.loads(line) followed by entry.get("id") does with a line:
\* "entry" (truthy id), "skip" (JSONDecodeError caught, or no id), or
\* "raise" (json value without .get: AttributeError, which no except
\* clause of the function catches).
ParseLine(l) ==
    CASE l.kind = "entry" -> "entry"
      [] l.kind = "badjson" -> "skip"
      [] l.kind = "noid" -> "skip"
      [] l.kind = "nonobj" -> "raise"
      [] OTHER -> "skip"

\* entries[entry_id] = entry: a Python dict keeps the position of a key
\* that is assigned again, so order lists ids by first occurrence.
PutEntryFirstWins(acc, l, lineno) ==
    IF acc.entries[l.id].present THEN acc
    ELSE [acc EXCEPT !.entries[l.id] =
              [present |-> TRUE, ver |-> l.ver, dep |-> l.dep, line |-> lineno],
              !.order = Append(acc.order, l.id)]

PutEntry(acc, l, lineno) ==
    [acc EXCEPT !.entries[l.id] =
         [present |-> TRUE, ver |-> l.ver, dep |-> l.dep, line |-> lineno],
         !.order = IF acc.entries[l.id].present THEN acc.order
                   ELSE Append(acc.order, l.id)]

NoFault == [at |-> "none", line |-> 0]
ReadFails(fault, i) == fault.at = "read" /\ fault.line = i

StartAcc == [status |-> "ok", entries |-> EmptyEntries, order |-> <<>>,
             total_lines |-> 0]

RECURSIVE ScanStandardCountsParsed(_, _, _, _, _, _)
ScanStandardCountsParsed(lines, i, start_line, track_lines, fault, acc) ==
    IF i >= Len(lines) THEN acc
    ELSE IF ReadFails(fault, i) THEN [acc EXCEPT !.status = "oserror"]
    ELSE LET l == lines[i + 1]
             counted == [acc EXCEPT !.total_lines = @ + 1]
         IN IF l.kind = "blank" \/ i < start_line
            THEN ScanStandardCountsParsed(lines, i + 1, start_line, track_lines, fault, acc)
            ELSE CASE ParseLine(l) = "raise" -> [counted EXCEPT !.status = "raised"]
                   [] ParseLine(l) = "entry" ->
                        ScanStandardCountsParsed(lines, i + 1, start_line, track_lines, fault,
                            PutEntry(counted, l, IF track_lines THEN i ELSE -1))
                   [] OTHER ->
                        ScanStandardCountsParsed(lines, i + 1, start_line, track_lines, fault,
                                                 counted)

RECURSIVE ScanStandard(_, _, _, _, _, _)
\* The standard path's loop from 0-based line i on.
ScanStandard(lines, i, start_line, track_lines, fault, acc) ==
    IF i >= Len(lines) THEN acc
    ELSE IF ReadFails(fault, i) THEN [acc EXCEPT !.status = "oserror"]
    ELSE LET l == lines[i + 1]
             counted == [acc EXCEPT !.total_lines = i + 1]
         IN IF l.kind = "blank" \/ i < start_line
            THEN ScanStandard(lines, i + 1, start_line, track_lines, fault, counted)
            ELSE CASE ParseLine(l) = "raise" -> [counted EXCEPT !.status = "raised"]
                   [] ParseLine(l) = "entry" ->
                        ScanStandard(lines, i + 1, start_line, track_lines, fault,
                            PutEntry(counted, l, IF track_lines THEN i ELSE -1))
                   [] OTHER ->
                        ScanStandard(lines, i + 1, start_line, track_lines, fault, counted)

FirstWholeLineNoSeek(lines, b) == 0

\* The first 0-based line that starts at or after byte b (Len: none does).
FirstWholeLine(lines, b) ==
    IF b >= FileSize(lines) THEN Len(lines)
    ELSE CHOOSE k \in 0..Len(lines) :
            /\ Offset(lines, k) >= b
            /\ \A j \in 0..Len(lines) : Offset(lines, j) >= b => j >= k

\* f.seek(b) inside a line: the rest of that line is read as a line of its
\* own, a lone newline or a broken body, which is skipped as blank or as
\* invalid JSON. FirstReadLine is the 0-based line the first read touches.
FirstReadLine(lines, b) ==
    LET k == FirstWholeLine(lines, b)
    IN IF b < FileSize(lines) /\ Offset(lines, k) > b THEN k - 1 ELSE k

RECURSIVE ScanOffset(_, _, _, _)
\* The fast path's loop over whole lines from 0-based line i on.
ScanOffset(lines, i, fault, acc) ==
    IF i >= Len(lines) THEN acc
    ELSE IF ReadFails(fault, i) THEN [acc EXCEPT !.status = "oserror"]
    ELSE LET l == lines[i + 1]
         IN IF l.kind = "blank"
            THEN ScanOffset(lines, i + 1, fault, acc)
            ELSE CASE ParseLine(l) = "raise" -> [acc EXCEPT !.status = "raised"]
                   [] ParseLine(l) = "entry" ->
                        ScanOffset(lines, i + 1, fault, PutEntry(acc, l, -1))
                   [] OTHER -> ScanOffset(lines, i + 1, fault, acc)

\* f.seek(0); total_lines = sum(1 for _ in f)
CountAllLines(lines) == Len(lines)

Returned(acc, end_offset) ==
    [status |-> acc.status, entries |-> acc.entries, order |-> acc.order,
     total_lines |-> acc.total_lines, end_offset |-> end_offset]

Raised == [status |-> "raised", entries |-> EmptyEntries, order |-> <<>>,
           total_lines |-> 0, end_offset |-> 0]

EmptyResult(status) ==
    [status |-> status, entries |-> EmptyEntries, order |-> <<>>,
     total_lines |-> 0, end_offset |-> 0]

\* except OSError: pass -- the function returns what its locals hold.
OnOSError(acc) == Returned(acc, 0)

SeekEndCountsLines(lines, fault, acc) ==
    IF fault.at = "end" THEN Returned([acc EXCEPT !.status = "oserror"], 0)
    ELSE Returned(acc, Len(lines))

\* f.seek(0, 2), the last statement inside the with block.
SeekEnd(lines, fault, acc) ==
    IF fault.at = "end" THEN OnOSError([acc EXCEPT !.status = "oserror"])
    ELSE Returned(acc, FileSize(lines))

\* load_events_latest_wins(events_path, start_line, track_lines, byte_offset).
\* exists/lines are the file; fault is where the operating system fails.
\* status: "missing" (no file), "ok", "oserror" (returned after except
\* OSError), "raised" (an exception left the function: no result).
load_events_latest_wins(exists, lines, start_line, track_lines, byte_offset, fault) ==
    IF ~exists THEN EmptyResult("missing")
    ELSE IF fault.at = "open" THEN OnOSError([StartAcc EXCEPT !.status = "oserror"])
    ELSE IF byte_offset > 0
    THEN LET first == FirstReadLine(lines, byte_offset)
             whole == FirstWholeLine(lines, byte_offset)
             main == IF first < whole /\ ReadFails(fault, first)
                     THEN [StartAcc EXCEPT !.status = "oserror"]
                     ELSE ScanOffset(lines, whole, fault, StartAcc)
         IN CASE main.status = "raised" -> Raised
              [] main.status = "oserror" -> OnOSError(main)
              [] fault.at = "read" /\ fault.line < Len(lines) ->
                    \* the recount reads the failing line
                    OnOSError([main EXCEPT !.status = "oserror"])
              [] OTHER ->
                    SeekEnd(lines, fault,
                            [main EXCEPT !.total_lines = CountAllLines(lines)])
    ELSE LET main == ScanStandard(lines, 0, start_line, track_lines, fault, StartAcc)
         IN CASE main.status = "raised" -> Raised
              [] main.status = "oserror" -> OnOSError(main)
              [] OTHER -> SeekEnd(lines, fault, main)

\* ------------------------------------------------------- secondary store
\* vectors.db behind the VectorDB interface sync.py calls. A SyncRecord is
\* [present, hash, dep]; fts[id] is the text version indexed (0: none).
NoHash == <<"sha256", 0>>
NoRecord == [present |-> FALSE, hash |-> NoHash, dep |-> FALSE]
NoCursor == -1

EmptyDb == [cursor |-> NoCursor,
            vectors |-> [i \in Ids |-> NoRecord],
            fts |-> [i \in Ids |-> 0],
            writes |-> 0,          \* store mutations made by the current run
            cursor_writes |-> 0,   \* set_sync_cursor calls among them
            cursor_write_at |-> 0] \* the place of the last one among them

get_sync_cursor(d) == d.cursor

set_sync_cursor(d, offset) ==
    [d EXCEPT !.cursor = offset, !.writes = @ + 1, !.cursor_writes = @ + 1,
              !.cursor_write_at = d.writes + 1]

has_vector(d, id) == d.vectors[id].present

needs_update(d, id, text_hash) ==
    ~d.vectors[id].present \/ d.vectors[id].hash # text_hash

upsert_fts(d, id, text) == [d EXCEPT !.fts[id] = text, !.writes = @ + 1]

delete_fts(d, id) == [d EXCEPT !.fts[id] = 0, !.writes = @ + 1]

upsert_vector(d, id, text_hash) ==
    [d EXCEPT !.vectors[id] = [present |-> TRUE, hash |-> text_hash, dep |-> FALSE],
              !.writes = @ + 1]

mark_deprecated_deleting(d, id) ==
    [d EXCEPT !.vectors[id] = NoRecord, !.writes = @ + 1]

mark_deprecated(d, id) ==
    [d EXCEPT !.vectors[id].dep = d.vectors[id].present, !.writes = @ + 1]

\* The store's content, without the counters of the run.
Content(d) == [cursor |-> d.cursor, vectors |-> d.vectors, fts |-> d.fts]

\* ---------------------------------------------------------------- sync.py
build_embedding_text(entry) == entry.ver

\* The title, text and tags the entry is indexed under.
build_fts_fields(entry) == entry.ver

_compute_text_hash(text) == <<"sha256", text>>

NoReport == [mode |-> "incremental", entries_scanned |-> 0, entries_added |-> 0,
             entries_updated |-> 0, entries_skipped |-> 0, entries_deprecated |-> 0,
             entries_fts_only |-> 0, errors |-> <<>>]

\* report.errors entries: a failed batch (its first item) or a failed upsert.
BatchError(batch_start) == [what |-> "batch", start |-> batch_start, id |-> "-"]
StoreError(id) == [what |-> "store", start |-> 0, id |-> id]

\* Lines 103-104: the cursor the run uses, and the mode it reports.
RunCursor(d, force_full) == IF force_full THEN NoCursor ELSE get_sync_cursor(d)

RunModeByCursor(d, force_full) ==
    IF get_sync_cursor(d) # NoCursor THEN "incremental" ELSE "full"

RunMode(d, force_full) ==
    IF RunCursor(d, force_full) # NoCursor /\ ~force_full THEN "incremental" ELSE "full"

ByteCursorFromStart(d, force_full) == 0

\* Line 107.
ByteCursor(d, force_full) ==
    IF RunCursor(d, force_full) # NoCursor /\ RunCursor(d, force_full) > 0
    THEN RunCursor(d, force_full) ELSE 0

\* Lines 54-76, 108-110.
_read_events(ex, lines, byte_offset, fault) ==
    load_events_latest_wins(ex, lines, 0, TRUE, byte_offset, fault)

ActiveIdsAll(res) == res.order

\* Lines 117-125: ids in dict order, split by the deprecated field.
DeprecatedIds(res) == SelectSeq(res.order, LAMBDA i : res.entries[i].dep)
ActiveIds(res) == SelectSeq(res.order, LAMBDA i : ~res.entries[i].dep)

Min(x, y) == IF x < y THEN x ELSE y

BatchToEnd(to_embed, batch_start, batch_size) ==
    SubSeq(to_embed, batch_start + 1, Len(to_embed))

\* Line 166: to_embed[batch_start:batch_start + batch_size]
Batch(to_embed, batch_start, batch_size) ==
    SubSeq(to_embed, batch_start + 1, Min(batch_start + batch_size, Len(to_embed)))

\* Line 203: the run advances the cursor.
AdvancesCursorAlways(report) == TRUE

AdvancesCursorOnError(report) == report.errors # <<>>

AdvancesCursor(report) == report.errors = <<>>

\* ------------------------------------------------------------------ state
VARIABLES
    exists,     \* events.jsonl exists
    log,        \* its lines, in file order
    rd,         \* the load_events_latest_wins call being made: arguments, result
    mark,       \* the last full read that returned: lines seen, end offset
    db,         \* the secondary store (vectors.db): cursor, SyncRecords, full text
    run,        \* the sync_embeddings call in progress: its locals
    last,       \* the sync_embeddings call that ended last: how, and its report
    scan,       \* the batch_validate or batch_write call made last: input, result
    archive,    \* the archive buckets: for each quarter, the lines appended to it
    cmp,        \* the compact_cli run made last: the files before it, its report
    hook        \* the stop hook run made last: its input, what it did and printed

vars == <<exists, log, rd, mark, db, run, last, scan, archive, cmp, hook>>

NoCall == [called |-> FALSE, start_line |-> 0, track_lines |-> FALSE,
           byte_offset |-> 0, fault |-> NoFault, res |-> EmptyResult("missing")]

Call(start_line, track_lines, byte_offset, fault) ==
    [called |-> TRUE, start_line |-> start_line, track_lines |-> track_lines,
     byte_offset |-> byte_offset, fault |-> fault,
     res |-> load_events_latest_wins(exists, log, start_line, track_lines,
                                     byte_offset, fault)]

Faults(lines) ==
    {NoFault, [at |-> "open", line |-> 0], [at |-> "end", line |-> 0]}
    \cup {[at |-> "read", line |-> k] : k \in 0..(Len(lines) - 1)}

\* What a run knows of the run that returned just before it, with nothing
\* appended or read in between: whether it recorded errors, whether it was
\* a scan from byte 0 with a provider that answered every text, the ids it
\* stored and failed on, the store an error-free run would have left, and
\* the store as that run left it.
NoContent == Content(EmptyDb)

NoPrev == [valid |-> FALSE, errors |-> 0, full |-> FALSE, embedder |-> FALSE,
           byte_cursor |-> 0, stored |-> {}, failed |-> {}, ideal |-> NoContent,
           after |-> NoContent]

NoRun == [pc |-> "idle", force_full |-> FALSE, embedder |-> FALSE, batch_size |-> 1,
          cursor_before |-> NoCursor, byte_cursor |-> 0, end_byte_offset |-> 0,
          entries |-> EmptyEntries, deprecated_ids |-> <<>>, active |-> <<>>,
          to_embed |-> <<>>, batch_start |-> 0, report |-> NoReport,
          skipped |-> {}, indexed |-> {}, stored |-> {}, failed |-> {}, short |-> FALSE,
          batches |-> <<>>, ideal |-> NoContent, prev |-> NoPrev]

NoLast == [outcome |-> "none", r |-> NoRun]

NoMark == [set |-> FALSE, lines |-> 0, end |-> 0]

\* BatchValidateResult()
NoResult == [total |-> 0, valid |-> <<>>, duplicates |-> <<>>, invalid |-> <<>>]

\* BatchWriteResult()
NoWrite == [written_count |-> 0, entry_ids |-> <<>>, errors |-> <<>>]

\* No OSError: neither from open() nor from a write or the closing flush.
NoWriteFault == [at |-> "never", after |-> 0, kept |-> 0]

NoScan == [op |-> "none", batch |-> <<>>, result |-> NoResult, write |-> NoWrite,
           fault |-> NoWriteFault, before |-> <<>>, existed |-> FALSE]

\* The quarters of the created_at values in use, and no bucket written.
Quarters == {1, 2}
NoArchive == [q \in Quarters |-> <<>>]

\* CompactionReport()
NoCompactionReport == [lines_before |-> 0, lines_after |-> 0, entries_kept |-> 0,
                       lines_archived |-> 0, quarters_touched |-> {}]

NoCompaction == [op |-> "none", before |-> <<>>, archive_before |-> NoArchive,
                 report |-> NoCompactionReport]

\* No stop hook run. An input is what main reads: whether stdin parses,
\* stop_hook_active, whether findings.md or progress.md exists, the two
\* config switches, whether a transcript path is given, and whether the
\* harvest raises.
NoHook == [ran |-> FALSE,
           input |-> [parsed |-> FALSE, stop_hook_active |-> FALSE, has_session |-> FALSE,
                      auto_draft |-> FALSE, transcript_path |-> FALSE,
                      auto_harvest |-> FALSE, harvest_raises |-> FALSE],
           decision |-> "none", harvested |-> FALSE, scanned |-> FALSE,
           stats_read |-> FALSE, compacted |-> FALSE, before |-> <<>>]

InitLog ==
    /\ exists = FALSE
    /\ log = <<>>
    /\ rd = NoCall
    /\ mark = NoMark
    /\ db = EmptyDb
    /\ run = NoRun
    /\ last = NoLast
    /\ scan = NoScan
    /\ archive = NoArchive
    /\ cmp = NoCompaction
    /\ hook = NoHook

\* One line is appended to events.jsonl (the file is created on demand).
\* Operations are sequential: no call is in progress.
AppendLine ==
    /\ rd.called = FALSE
    /\ Len(log) < MaxLines
    /\ \E l \in Lines : log' = Append(log, l)
    /\ exists' = TRUE
    /\ UNCHANGED <<rd, mark, db, run, last, scan, archive, cmp, hook>>

\* One line is appended between two sync runs.
AppendEntry ==
    /\ run.pc = "idle"
    /\ last = NoLast
    /\ Len(log) < MaxSyncLines
    /\ \E l \in SyncLines : log' = Append(log, l)
    /\ exists' = TRUE
    /\ UNCHANGED <<rd, mark, db, run, last, scan, archive, cmp, hook>>

\* A caller reads the log on the standard path (byte_offset = 0).
LoadStandard ==
    /\ rd.called = FALSE
    /\ \E start_line \in 0..Len(log), track_lines \in BOOLEAN, fault \in Faults(log) :
          rd' = Call(start_line, track_lines, 0, fault)
    /\ UNCHANGED <<exists, log, mark, db, run, last, scan, archive, cmp, hook>>

\* A caller reads the log from a byte offset; the fast path does not read
\* start_line.
LoadFromOffset ==
    /\ rd.called = FALSE
    /\ \E track_lines \in BOOLEAN, byte_offset \in 1..(FileSize(log) + 1),
          fault \in Faults(log) :
          rd' = Call(0, track_lines, byte_offset, fault)
    /\ UNCHANGED <<exists, log, mark, db, run, last, scan, archive, cmp, hook>>

\* The caller has used the result.
LoadDone ==
    /\ rd.called
    /\ rd' = NoCall
    /\ UNCHANGED <<exists, log, mark, db, run, last, scan, archive, cmp, hook>>

NextReader == AppendLine \/ LoadStandard \/ LoadFromOffset \/ LoadDone

SpecReader == InitLog /\ [][NextReader]_vars

\* A full read with the default arguments; the caller keeps its end offset.
FullRead ==
    /\ rd.called = FALSE
    /\ rd' = Call(0, FALSE, 0, NoFault)
    /\ mark' = IF rd'.res.status = "raised" THEN mark
               ELSE [set |-> TRUE, lines |-> Len(log), end |-> rd'.res.end_offset]
    /\ UNCHANGED <<exists, log, db, run, last, scan, archive, cmp, hook>>

\* The caller reads again from the end offset it kept.
IncrementalRead ==
    /\ rd.called = FALSE
    /\ mark.set
    /\ \E track_lines \in BOOLEAN : rd' = Call(0, track_lines, mark.end, NoFault)
    /\ UNCHANGED <<exists, log, mark, db, run, last, scan, archive, cmp, hook>>

NextIncr == AppendLine \/ FullRead \/ IncrementalRead \/ LoadDone

SpecIncr == InitLog /\ [][NextIncr]_vars

\* ------------------------------------------------------- sync_embeddings
AdvanceActiveFirst(r) ==
    CASE r.pc = "deprecated" /\ r.active # <<>> -> [r EXCEPT !.pc = "active"]
      [] r.pc = "deprecated" /\ r.active = <<>> /\ r.deprecated_ids = <<>> ->
            [r EXCEPT !.pc = IF r.to_embed = <<>> THEN "finish" ELSE "embed"]
      [] r.pc = "active" /\ r.active = <<>> ->
            IF r.deprecated_ids # <<>> THEN [r EXCEPT !.pc = "deprecated"]
            ELSE [r EXCEPT !.pc = IF r.to_embed = <<>> THEN "finish" ELSE "embed"]
      [] r.pc = "embed" /\ r.batch_start >= Len(r.to_embed) ->
            [r EXCEPT !.pc = "finish"]
      [] OTHER -> r

\* The loops end: lines 129, 139, 165.
Advance(r) ==
    CASE r.pc = "deprecated" /\ r.deprecated_ids = <<>> ->
            IF r.active = <<>>
            THEN [r EXCEPT !.pc = IF r.to_embed = <<>> THEN "finish" ELSE "embed"]
            ELSE [r EXCEPT !.pc = "active"]
      [] r.pc = "active" /\ r.active = <<>> ->
            [r EXCEPT !.pc = IF r.to_embed = <<>> THEN "finish" ELSE "embed"]
      [] r.pc = "embed" /\ r.batch_start >= Len(r.to_embed) ->
            [r EXCEPT !.pc = "finish"]
      [] OTHER -> r

ClearJournal(d) == [d EXCEPT !.writes = 0, !.cursor_writes = 0, !.cursor_write_at = 0]

\* What is kept of a run that ended: its arguments, report, queue, the
\* batches it submitted and the ids it skipped, stored and failed on.
Ended(r) == [r EXCEPT !.pc = "idle", !.entries = EmptyEntries, !.deprecated_ids = <<>>,
                      !.active = <<>>, !.batch_start = 0]

Summary(l) ==
    IF l.outcome # "returned" THEN NoPrev
    ELSE [valid |-> TRUE, errors |-> Len(l.r.report.errors),
          full |-> l.r.byte_cursor = 0 /\ l.r.embedder /\ ~l.r.short,
          embedder |-> l.r.embedder, byte_cursor |-> l.r.byte_cursor,
          stored |-> l.r.stored, failed |-> l.r.failed, ideal |-> l.r.ideal,
          after |-> Content(db)]

\* Lines 99-125: the run reads its cursor and the log and splits the entries.
\* An exception of the reader leaves sync_embeddings at once; no entries is
\* the early return of lines 113-115.
Begin(force_full, embedder, batch_size, fault, prev) ==
    LET res == _read_events(exists, log, ByteCursor(db, force_full), fault)
        r0 == [NoRun EXCEPT
                 !.force_full = force_full, !.embedder = embedder,
                 !.batch_size = batch_size,
                 !.cursor_before = get_sync_cursor(db),
                 !.byte_cursor = ByteCursor(db, force_full),
                 !.end_byte_offset = res.end_offset,
                 !.entries = res.entries,
                 !.deprecated_ids = DeprecatedIds(res),
                 !.active = ActiveIds(res),
                 !.report = [NoReport EXCEPT !.mode = RunMode(db, force_full),
                                             !.entries_scanned = Len(res.order)],
                 !.ideal = Content(db),
                 !.prev = prev]
    IN /\ db' = ClearJournal(db)
       /\ IF res.status = "raised"
          THEN /\ last' = [outcome |-> "raised", r |-> Ended([r0 EXCEPT !.report = NoReport])]
               /\ run' = NoRun
          ELSE IF res.order = <<>>
          THEN /\ last' = [outcome |-> "returned", r |-> Ended(r0)]
               /\ run' = NoRun
          ELSE /\ last' = NoLast
               /\ run' = Advance([r0 EXCEPT !.pc = "deprecated"])
       /\ UNCHANGED <<exists, log, rd, mark, scan, archive, cmp, hook>>

\* sync_embeddings is called: with or without force_full, with an embedder
\* and a batch size or with embedder = None.
SyncStart ==
    /\ run.pc = "idle"
    /\ \/ \E force_full \in BOOLEAN, batch_size \in 1..MaxBatch :
             Begin(force_full, TRUE, batch_size, NoFault, NoPrev)
       \/ \E force_full \in BOOLEAN :
             Begin(force_full, FALSE, 1, NoFault, NoPrev)

\* sync_embeddings is called again right after a run that returned.
SyncAgain ==
    /\ run.pc = "idle"
    /\ last.outcome = "returned"
    /\ \/ \E force_full \in BOOLEAN, batch_size \in 1..MaxBatch :
             Begin(force_full, TRUE, batch_size, NoFault, Summary(last))
       \/ \E force_full \in BOOLEAN :
             Begin(force_full, FALSE, 1, NoFault, Summary(last))

\* Lines 129-132, one deprecated id.
SyncDeprecated ==
    /\ run.pc = "deprecated"
    /\ LET id == Head(run.deprecated_ids)
       IN /\ db' = delete_fts(mark_deprecated(db, id), id)
          /\ run' = Advance([run EXCEPT
                         !.deprecated_ids = Tail(@),
                         !.report.entries_deprecated = @ + 1,
                         !.ideal = Content(db')])
    /\ UNCHANGED <<exists, log, rd, mark, last, scan, archive, cmp, hook>>

AfterIndexingAlwaysQueues(r, id, content) ==
    [r EXCEPT !.active = Tail(@), !.to_embed = Append(@, id),
              !.indexed = @ \cup {id}, !.ideal = content]

\* Lines 157-161: after upsert_fts the entry is counted as fts-only when
\* there is no embedder and queued for embedding otherwise.
AfterIndexing(r, id, content) ==
    IF ~r.embedder
    THEN [r EXCEPT !.active = Tail(@), !.report.entries_fts_only = @ + 1,
                   !.indexed = @ \cup {id}, !.ideal = content]
    ELSE [r EXCEPT !.active = Tail(@), !.to_embed = Append(@, id),
                   !.indexed = @ \cup {id}, !.ideal = content]

\* Lines 139-161, one active entry.
SyncActive ==
    /\ run.pc = "active"
    /\ LET id == Head(run.active)
           text_hash == _compute_text_hash(build_embedding_text(run.entries[id]))
       IN IF ~needs_update(db, id, text_hash)
          THEN /\ db' = db
               /\ run' = Advance([run EXCEPT !.active = Tail(@),
                                             !.report.entries_skipped = @ + 1,
                                             !.skipped = @ \cup {id}])
          ELSE /\ db' = upsert_fts(db, id, build_fts_fields(run.entries[id]))
               /\ run' = Advance(AfterIndexing(run, id, Content(db')))
    /\ UNCHANGED <<exists, log, rd, mark, last, scan, archive, cmp, hook>>

RECURSIVE StoreBatchAdvancing(_, _, _, _, _)
StoreBatchAdvancing(st, items, n, fails, entries) ==
    IF items = <<>> \/ n = 0
    THEN [st EXCEPT !.db = set_sync_cursor(st.db, st.r.end_byte_offset)]
    ELSE LET id == Head(items)
             text_hash == _compute_text_hash(build_embedding_text(entries[id]))
             is_new == ~has_vector(st.db, id)
         IN IF id \in fails
            THEN StoreBatchAdvancing(
                    [st EXCEPT !.r.report.errors = Append(@, StoreError(id)),
                               !.r.failed = @ \cup {id}],
                    Tail(items), n - 1, fails, entries)
            ELSE StoreBatchAdvancing(
                    [db |-> upsert_vector(st.db, id, text_hash),
                     r |-> [st.r EXCEPT
                              !.report.entries_added = IF is_new THEN @ + 1 ELSE @,
                              !.report.entries_updated = IF is_new THEN @ ELSE @ + 1,
                              !.stored = @ \cup {id}]],
                    Tail(items), n - 1, fails, entries)

RECURSIVE StoreBatchInsertOnly(_, _, _, _, _)
StoreBatchInsertOnly(st, items, n, fails, entries) ==
    IF items = <<>> \/ n = 0 THEN st
    ELSE LET id == Head(items)
             text_hash == _compute_text_hash(build_embedding_text(entries[id]))
             is_new == ~has_vector(st.db, id)
         IN IF id \in fails
            THEN StoreBatchInsertOnly(
                    [st EXCEPT !.r.report.errors = Append(@, StoreError(id)),
                               !.r.failed = @ \cup {id}],
                    Tail(items), n - 1, fails, entries)
            ELSE IF ~is_new
            THEN StoreBatchInsertOnly(st, Tail(items), n - 1, fails, entries)
            ELSE StoreBatchInsertOnly(
                    [db |-> upsert_vector(st.db, id, text_hash),
                     r |-> [st.r EXCEPT
                              !.report.entries_added = @ + 1,
                              !.stored = @ \cup {id}]],
                    Tail(items), n - 1, fails, entries)

RECURSIVE StoreBatchCountsAdded(_, _, _, _, _)
StoreBatchCountsAdded(st, items, n, fails, entries) ==
    IF items = <<>> \/ n = 0 THEN st
    ELSE LET id == Head(items)
             text_hash == _compute_text_hash(build_embedding_text(entries[id]))
         IN IF id \in fails
            THEN StoreBatchCountsAdded(
                    [st EXCEPT !.r.report.errors = Append(@, StoreError(id)),
                               !.r.failed = @ \cup {id}],
                    Tail(items), n - 1, fails, entries)
            ELSE StoreBatchCountsAdded(
                    [db |-> upsert_vector(st.db, id, text_hash),
                     r |-> [st.r EXCEPT !.report.entries_added = @ + 1,
                                        !.stored = @ \cup {id}]],
                    Tail(items), n - 1, fails, entries)

RECURSIVE StoreBatchStopping(_, _, _, _, _)
StoreBatchStopping(st, items, n, fails, entries) ==
    IF items = <<>> \/ n = 0 THEN st
    ELSE LET id == Head(items)
             text_hash == _compute_text_hash(build_embedding_text(entries[id]))
             is_new == ~has_vector(st.db, id)
         IN IF id \in fails
            THEN [st EXCEPT !.r.report.errors = Append(@, StoreError(id)),
                            !.r.failed = @ \cup {id}]
            ELSE StoreBatchStopping(
                    [db |-> upsert_vector(st.db, id, text_hash),
                     r |-> [st.r EXCEPT
                              !.report.entries_added = IF is_new THEN @ + 1 ELSE @,
                              !.report.entries_updated = IF is_new THEN @ ELSE @ + 1,
                              !.stored = @ \cup {id}]],
                    Tail(items), n - 1, fails, entries)

RECURSIVE StoreBatch(_, _, _, _, _)
\* Lines 178-197: the zip of the batch with the provider's results; an
\* upsert that raises (the ids in fails) is recorded and the loop goes on.
\* st is [db, r]; items are the ids left, n the results left.
StoreBatch(st, items, n, fails, entries) ==
    IF items = <<>> \/ n = 0 THEN st
    ELSE LET id == Head(items)
             text_hash == _compute_text_hash(build_embedding_text(entries[id]))
             is_new == ~has_vector(st.db, id)
         IN IF id \in fails
            THEN StoreBatch([st EXCEPT !.r.report.errors = Append(@, StoreError(id)),
                                       !.r.failed = @ \cup {id}],
                            Tail(items), n - 1, fails, entries)
            ELSE StoreBatch(
                    [db |-> upsert_vector(st.db, id, text_hash),
                     r |-> [st.r EXCEPT
                              !.report.entries_added = IF is_new THEN @ + 1 ELSE @,
                              !.report.entries_updated = IF is_new THEN @ ELSE @ + 1,
                              !.stored = @ \cup {id}]],
                    Tail(items), n - 1, fails, entries)

SeqToSet(q) == {q[i] : i \in 1..Len(q)}

\* What the provider did with one batch: ok = FALSE it raised, else it
\* returned n results.
BatchRecord(batch_start, batch, ok, n) ==
    [start |-> batch_start, items |-> batch, ok |-> ok, n |-> n]

AfterBatchFailureBreaks(r, batch) ==
    [r EXCEPT !.report.errors = Append(@, BatchError(r.batch_start)),
              !.failed = @ \cup SeqToSet(batch),
              !.batches = Append(@, BatchRecord(r.batch_start, batch, FALSE, 0)),
              !.batch_start = Len(r.to_embed)]

\* Lines 171-175: the error is recorded and the loop continues with the
\* next batch.
AfterBatchFailure(r, batch) ==
    [r EXCEPT !.report.errors = Append(@, BatchError(r.batch_start)),
              !.failed = @ \cup SeqToSet(batch),
              !.batches = Append(@, BatchRecord(r.batch_start, batch, FALSE, 0)),
              !.batch_start = @ + r.batch_size]

\* Lines 165-198, one batch. The provider raises, or returns n results
\* (n below the batch's length: a short list, which zip cuts the batch to);
\* fails are the ids whose upsert_vector raises. ideal follows the run
\* with every batch answered in full and stored.
SyncEmbedBatch ==
    /\ run.pc = "embed"
    /\ LET batch == Batch(run.to_embed, run.batch_start, run.batch_size)
           whole == StoreBatch([db |-> [db EXCEPT !.vectors = run.ideal.vectors],
                                r |-> run], batch, Len(batch), {}, run.entries)
           cur == [run EXCEPT !.ideal.vectors = whole.db.vectors]
       IN \/ /\ db' = db
             /\ run' = Advance(AfterBatchFailure(cur, batch))
          \/ \E n \in 0..Len(batch), fails \in SUBSET SeqToSet(batch) :
                LET st == StoreBatch([db |-> db, r |-> cur], batch, n, fails,
                                     run.entries)
                IN /\ fails \subseteq SeqToSet(SubSeq(batch, 1, n))
                   /\ db' = st.db
                   /\ run' = Advance([st.r EXCEPT
                                  !.short = @ \/ n < Len(batch),
                                  !.batches = Append(@, BatchRecord(run.batch_start,
                                                                   batch, TRUE, n)),
                                  !.batch_start = @ + run.batch_size])
    /\ UNCHANGED <<exists, log, rd, mark, last, scan, archive, cmp, hook>>

\* Lines 200-212: the cursor is written when the report has no error.
SyncFinish ==
    /\ run.pc = "finish"
    /\ db' = IF AdvancesCursor(run.report)
             THEN set_sync_cursor(db, run.end_byte_offset) ELSE db
    /\ last' = [outcome |-> "returned",
                r |-> Ended([run EXCEPT !.ideal.cursor = run.end_byte_offset])]
    /\ run' = NoRun
    /\ UNCHANGED <<exists, log, rd, mark, scan, archive, cmp, hook>>

\* The run ends before its next statement: an exception of a store call
\* outside the try of lines 179-197 (begin_batch, mark_deprecated,
\* delete_fts, needs_update, upsert_fts, end_batch), or an interruption.
SyncAbort ==
    /\ run.pc # "idle"
    /\ last' = [outcome |-> "aborted", r |-> [NoRun EXCEPT !.cursor_before = run.cursor_before]]
    /\ run' = NoRun
    /\ UNCHANGED <<exists, log, rd, mark, db, scan, archive, cmp, hook>>

\* The run ends inside a step: delete_fts raises after mark_deprecated took
\* effect, or the run is cut off (end_batch raises, an interruption) after
\* k entries of a batch were stored.
SyncAbortMidStep ==
    /\ \/ /\ run.pc = "deprecated"
          /\ db' = mark_deprecated(db, Head(run.deprecated_ids))
       \/ /\ run.pc = "embed"
          /\ LET batch == Batch(run.to_embed, run.batch_start, run.batch_size)
             IN \E k \in 1..Len(batch) :
                   db' = StoreBatch([db |-> db, r |-> run], batch, k, {}, run.entries).db
    /\ last' = [outcome |-> "aborted", r |-> [NoRun EXCEPT !.cursor_before = run.cursor_before]]
    /\ run' = NoRun
    /\ UNCHANGED <<exists, log, rd, mark, scan, archive, cmp, hook>>

\* The caller has used the report.
ReportDone ==
    /\ run.pc = "idle"
    /\ last # NoLast
    /\ last' = NoLast
    /\ db' = ClearJournal(db)
    /\ UNCHANGED <<exists, log, rd, mark, run, scan, archive, cmp, hook>>

NextSync ==
    \/ AppendEntry
    \/ SyncStart
    \/ SyncDeprecated
    \/ SyncActive
    \/ SyncEmbedBatch
    \/ SyncFinish
    \/ SyncAbort
    \/ SyncAbortMidStep
    \/ ReportDone

SpecSync == InitLog /\ [][NextSync]_vars

\* sync_embeddings is called and the operating system fails while the
\* reader opens, reads or seeks the log: the reader returns what it holds.
SyncStartFaulty ==
    /\ run.pc = "idle"
    /\ \E force_full \in BOOLEAN, embedder \in BOOLEAN, fault \in Faults(log) \ {NoFault} :
          Begin(force_full, embedder, 1, fault, NoPrev)

NextFaulty == NextSync \/ SyncStartFaulty

SpecFaulty == InitLog /\ [][NextFaulty]_vars

NextRetry == NextSync \/ SyncAgain

SpecRetry == InitLog /\ [][NextRetry]_vars

\* ------------------------------------------------------------ scanner.py
MaxCands == 2
MaxScanLines == 2

\* Candidate entries: an id ("" when the candidate has none), a canonical
\* comparison text, whether the other required fields are there, and whether
\* json.dumps and the utf-8 encoding of the line succeed for it.
Texts == 1..4
Cands ==
    {c \in [id : Ids \cup {""}, text : Texts, fields : BOOLEAN, ser : BOOLEAN] :
        /\ c.id = "" => (c.text = 1 /\ c.fields /\ c.ser)
        /\ ~c.fields => (c.id = "a" /\ c.text = 1 /\ c.ser)
        /\ ~c.ser => (c.id = "b" /\ c.text = 1)}

Batches(n) == UNION {[1..k -> Cands] : k \in 0..n}

\* validate_schema(entry).valid
validate_schema(entry) == entry.id # "" /\ entry.fields

\* config.get("automation", {}).get("dedup_threshold", 0.85), in hundredths.
DedupThreshold == 85

\* The similarity score of two comparison texts, in hundredths.
Similarity(x, y) == 100 - 10 * (IF x > y THEN x - y ELSE y - x)

\* check_duplicates(entry, _preloaded_entries = state): every entry of the
\* state is compared; a score at or above the threshold makes a duplicate.
check_duplicates(entry, state, threshold) ==
    LET similar == {id \in Ids : state[id].present
                                 /\ Similarity(entry.text, state[id].ver) >= threshold}
    IN [is_duplicate |-> similar # {}, similar_entries |-> similar]

\* _load_entries_latest_wins(events_path)
_load_entries_latest_wins(ex, lines) ==
    load_events_latest_wins(ex, lines, 0, FALSE, 0, NoFault).entries

RememberNothing(validated_so_far, entry) == validated_so_far

\* Lines 521-522: if entry_id: validated_so_far[entry_id] = entry
Remember(validated_so_far, entry) ==
    IF entry.id # ""
    THEN [validated_so_far EXCEPT ![entry.id] =
             [present |-> TRUE, ver |-> entry.text, dep |-> FALSE, line |-> -1]]
    ELSE validated_so_far

RECURSIVE ValidateLoopChecksFirst(_, _, _, _, _)
ValidateLoopChecksFirst(entries, existing, threshold, validated_so_far, result) ==
    IF entries = <<>> THEN result
    ELSE LET entry == Head(entries)
             dedup == check_duplicates(entry, existing, threshold)
             cross_dedup == check_duplicates(entry, validated_so_far, threshold)
         IN IF dedup.is_duplicate
            THEN ValidateLoopChecksFirst(Tail(entries), existing, threshold,
                    validated_so_far, [result EXCEPT !.duplicates = Append(@, entry)])
            ELSE IF validated_so_far # EmptyEntries /\ cross_dedup.is_duplicate
            THEN ValidateLoopChecksFirst(Tail(entries), existing, threshold,
                    validated_so_far, [result EXCEPT !.duplicates = Append(@, entry)])
            ELSE IF ~validate_schema(entry)
            THEN ValidateLoopChecksFirst(Tail(entries), existing, threshold,
                    validated_so_far, [result EXCEPT !.invalid = Append(@, entry)])
            ELSE ValidateLoopChecksFirst(Tail(entries), existing, threshold,
                    Remember(validated_so_far, entry),
                    [result EXCEPT !.valid = Append(@, entry)])

RECURSIVE ValidateLoop(_, _, _, _, _)
\* Lines 490-522, the loop over the entries left.
ValidateLoop(entries, existing, threshold, validated_so_far, result) ==
    IF entries = <<>> THEN result
    ELSE LET entry == Head(entries)
             dedup == check_duplicates(entry, existing, threshold)
             cross_dedup == check_duplicates(entry, validated_so_far, threshold)
         IN IF ~validate_schema(entry)
            THEN ValidateLoop(Tail(entries), existing, threshold, validated_so_far,
                              [result EXCEPT !.invalid = Append(@, entry)])
            ELSE IF dedup.is_duplicate
            THEN ValidateLoop(Tail(entries), existing, threshold, validated_so_far,
                              [result EXCEPT !.duplicates = Append(@, entry)])
            ELSE IF validated_so_far # EmptyEntries /\ cross_dedup.is_duplicate
            THEN ValidateLoop(Tail(entries), existing, threshold, validated_so_far,
                              [result EXCEPT !.duplicates = Append(@, entry)])
            ELSE ValidateLoop(Tail(entries), existing, threshold,
                              Remember(validated_so_far, entry),
                              [result EXCEPT !.valid = Append(@, entry)])

\* batch_validate(entries, events_path, config)
batch_validate(entries, ex, lines, threshold) ==
    ValidateLoop(entries, _load_entries_latest_wins(ex, lines), threshold,
                 EmptyEntries, [NoResult EXCEPT !.total = Len(entries)])

\* json.dumps(entry) + "\n": the line batch_write appends for an entry; the
\* reader takes a line without id as one that holds no entry.
EntryLine(entry) ==
    [kind |-> IF entry.id = "" THEN "noid" ELSE "entry",
     id |-> entry.id, ver |-> entry.text, dep |-> FALSE, fields |-> entry.fields]

\* The OSErrors of one batch_write call: none, open() raises, or a write (or
\* the flush when the file is closed) raises once `after` entries have been
\* gone through, with only `kept` of the lines written so far in the file.
WriteFaults(entries) ==
    {NoWriteFault, [at |-> "open", after |-> 0, kept |-> 0]}
    \cup {f \in [at : {"write"}, after : 0..Len(entries), kept : 0..Len(entries)] :
            /\ f.after < Len(entries) => entries[f.after + 1].ser
            /\ f.kept <= Cardinality({i \in 1..f.after : entries[i].ser})}

RECURSIVE WriteLoop(_, _, _)
\* Lines 551-559: the first n entries gone through, each written as one line
\* or turned into one error string.
WriteLoop(entries, n, w) ==
    IF n = 0 THEN w
    ELSE LET prev == WriteLoop(entries, n - 1, w)
             entry == entries[n]
         IN IF entry.ser
            THEN [lines |-> Append(prev.lines, EntryLine(entry)),
                  result |-> [prev.result EXCEPT
                      !.entry_ids = Append(@, IF entry.id = "" THEN "unknown" ELSE entry.id),
                      !.written_count = @ + 1]]
            ELSE [prev EXCEPT !.result.errors = Append(@, "Cannot serialize entry")]

\* batch_write(entries, events_path): the lines that reach the file, whether
\* the file has been opened (and so exists afterwards), and the result.
batch_write(entries, fault) ==
    LET nothing == [lines |-> <<>>, result |-> NoWrite]
    IN IF entries = <<>> THEN [lines |-> <<>>, opened |-> FALSE, result |-> NoWrite]
       ELSE IF fault.at = "open"
       THEN [lines |-> <<>>, opened |-> FALSE,
             result |-> [NoWrite EXCEPT !.errors = <<"Cannot write to">>]]
       ELSE IF fault.at = "write"
       THEN LET w == WriteLoop(entries, fault.after, nothing)
            IN [lines |-> SubSeq(w.lines, 1, fault.kept), opened |-> TRUE,
                result |-> [w.result EXCEPT !.errors = Append(@, "Cannot write to")]]
       ELSE LET w == WriteLoop(entries, Len(entries), nothing)
            IN [lines |-> w.lines, opened |-> TRUE, result |-> w.result]

OverwriteLines(content, lines) == lines

\* Line 550, open(events_path, "a"): what is written goes after the content.
AppendLines(content, lines) == content \o lines

\* scan_cli validate: batch_validate over the entries read from stdin.
ScanValidate ==
    /\ scan.op = "none"
    /\ \E batch \in Batches(MaxCands) :
          scan' = [NoScan EXCEPT !.op = "validate", !.batch = batch,
                   !.result = batch_validate(batch, exists, log, DedupThreshold)]
    /\ UNCHANGED <<exists, log, rd, mark, db, run, last, archive, cmp, hook>>

\* cmd_validate on a batch one longer, of complete candidates that carry the
\* two ids in any order and repetition, with texts that are identical or
\* unlike.
ScanValidateVersions ==
    /\ scan.op = "none"
    /\ \E batch \in [1..(MaxCands + 1) ->
                        {c \in Cands : c.id # "" /\ c.fields /\ c.ser /\ c.text \in {1, 4}}] :
          scan' = [NoScan EXCEPT !.op = "validate", !.batch = batch,
                   !.result = batch_validate(batch, exists, log, DedupThreshold)]
    /\ UNCHANGED <<exists, log, rd, mark, db, run, last, archive, cmp, hook>>

\* cmd_commit, lines 196-202: batch_write over the entries read from stdin.
cmd_commit(entries) ==
    /\ Len(log) + Len(entries) <= MaxScanLines
    /\ \E fault \in WriteFaults(entries) :
          LET w == batch_write(entries, fault)
          IN /\ log' = AppendLines(log, w.lines)
             /\ exists' = (exists \/ w.opened)
             /\ scan' = [op |-> "commit", batch |-> entries, result |-> NoResult,
                         write |-> w.result, fault |-> fault,
                         before |-> log, existed |-> exists]
    /\ UNCHANGED <<rd, mark, db, run, last, archive, cmp, hook>>

\* scan_cli commit with the entries batch_validate has put in valid.
ScanCommitValid ==
    /\ scan.op = "validate"
    /\ cmd_commit(scan.result.valid)

\* scan_cli commit with any entries on stdin.
ScanCommit ==
    /\ scan.op = "none"
    /\ \E batch \in Batches(MaxCands) : cmd_commit(batch)

\* The caller has used the output.
ScanDone ==
    /\ scan.op # "none"
    /\ scan' = NoScan
    /\ UNCHANGED <<exists, log, rd, mark, db, run, last, archive, cmp, hook>>

NextScan ==
    ScanValidate \/ ScanValidateVersions \/ ScanCommitValid \/ ScanCommit \/ ScanDone

SpecScan == InitLog /\ [][NextScan]_vars

\* -------------------------------------------------------- compact_cli.py
MaxCompactLines == 3

\* created_at, as the month of the timestamp, and the quarter it lies in.
Months == {2, 5}
QuarterOf(created_at) == (created_at - 1) \div 3 + 1

\* The lines of the logs compaction is explored over: versions of entries.
CompactLines ==
    [kind : {"entry"}, id : Ids, ver : Vers, dep : BOOLEAN, created_at : Months]

\* The 1-based line that holds the latest version of the id of line j.
LatestLine(lines, j) ==
    CHOOSE k \in 1..Len(lines) :
        /\ lines[k].id = lines[j].id
        /\ \A i \in 1..Len(lines) : lines[i].id = lines[j].id => i <= k

\* get_compaction_stats(events_path, threshold)
get_compaction_stats(lines) ==
    LET latest == {j \in 1..Len(lines) : LatestLine(lines, j) = j}
        active == {j \in latest : ~lines[j].dep}
    IN [total_lines |-> Len(lines),
        unique_entries |-> Cardinality(latest),
        active_entries |-> Cardinality(active),
        deprecated_entries |-> Cardinality(latest \ active),
        superseded_lines |-> Len(lines) - Cardinality(latest),
        waste_num |-> Len(lines),
        waste_den |-> IF Cardinality(active) > 1 THEN Cardinality(active) ELSE 1]

AlreadyCompactStrict(stats) == stats.waste_num < stats.waste_den

\* Line 99: stats.waste_ratio <= 1.0
AlreadyCompact(stats) == stats.waste_num <= stats.waste_den

\* A kept line: the latest version of an id that is not deprecated.
IsKept(lines, j) == LatestLine(lines, j) = j /\ ~lines[j].dep

BucketOfLatest(lines, j) == QuarterOf(lines[LatestLine(lines, j)].created_at)

\* The bucket a removed line goes to: the quarter of its own created_at.
BucketOf(lines, j) == QuarterOf(lines[j].created_at)

RECURSIVE KeptLines(_, _)
\* The kept lines among the first n, in the order of the log.
KeptLines(lines, n) ==
    IF n = 0 THEN <<>>
    ELSE IF IsKept(lines, n) THEN Append(KeptLines(lines, n - 1), lines[n])
    ELSE KeptLines(lines, n - 1)

RECURSIVE RemovedLines(_, _, _)
\* The removable lines among the first n that go to bucket q, in order.
RemovedLines(lines, n, q) ==
    IF n = 0 THEN <<>>
    ELSE IF ~IsKept(lines, n) /\ BucketOf(lines, n) = q
    THEN Append(RemovedLines(lines, n - 1, q), lines[n])
    ELSE RemovedLines(lines, n - 1, q)

\* compact(events_path, archive_dir, config): the log rewritten, the
\* buckets appended to, and the report.
compact(lines, buckets) ==
    LET kept == KeptLines(lines, Len(lines))
        gone == [q \in Quarters |-> RemovedLines(lines, Len(lines), q)]
    IN [log |-> kept,
        archive |-> [q \in Quarters |-> buckets[q] \o gone[q]],
        report |-> [lines_before |-> Len(lines), lines_after |-> Len(kept),
                    entries_kept |-> Len(kept),
                    lines_archived |-> Len(lines) - Len(kept),
                    quarters_touched |-> {q \in Quarters : gone[q] # <<>>}]]

\* One version of an entry is appended to events.jsonl; the exploration ends
\* once MaxCompactLines lines exist in the log and the buckets together.
AppendVersion ==
    /\ cmp.op = "none"
    /\ hook.ran = FALSE
    /\ Len(log) + Len(archive[1]) + Len(archive[2]) < MaxCompactLines
    /\ \E l \in CompactLines : log' = Append(log, l)
    /\ exists' = TRUE
    /\ UNCHANGED <<rd, mark, db, run, last, scan, archive, cmp, hook>>

\* compact_cli main, lines 97-107: nothing to do when the waste ratio is at
\* most 1.0, else compact().
CompactMain ==
    /\ cmp.op = "none"
    /\ LET stats == get_compaction_stats(log)
           done == compact(log, archive)
       IN IF AlreadyCompact(stats)
          THEN /\ cmp' = [op |-> "nothing", before |-> log, archive_before |-> archive,
                          report |-> NoCompactionReport]
               /\ UNCHANGED <<log, archive>>
          ELSE /\ cmp' = [op |-> "compacted", before |-> log,
                          archive_before |-> archive, report |-> done.report]
               /\ log' = done.log
               /\ archive' = done.archive
    /\ UNCHANGED <<exists, rd, mark, db, run, last, scan, hook>>

\* The caller has read the output.
CompactDone ==
    /\ cmp.op # "none"
    /\ cmp' = NoCompaction
    /\ UNCHANGED <<exists, log, rd, mark, db, run, last, scan, archive, hook>>

NextCompact == AppendVersion \/ CompactMain \/ CompactDone

SpecCompact == InitLog /\ [][NextCompact]_vars

\* ------------------------------------------------------- stop_harvest.py
\* compaction.auto_suggest_threshold, default 2.0
AutoSuggestThreshold == 2

\* stats.suggest_compact: the waste ratio exceeds the threshold.
suggest_compact(stats) == stats.waste_num > AutoSuggestThreshold * stats.waste_den

\* The inputs of the hook, one for each path main distinguishes.
HookInputs ==
    {i \in [parsed : BOOLEAN, stop_hook_active : BOOLEAN, has_session : BOOLEAN,
            auto_draft : BOOLEAN, transcript_path : BOOLEAN,
            auto_harvest : BOOLEAN, harvest_raises : BOOLEAN] :
        /\ ~i.parsed => i = NoHook.input
        /\ (i.stop_hook_active \/ i.has_session) => (~i.auto_draft /\ ~i.transcript_path)
        /\ (i.stop_hook_active \/ ~i.has_session) => ~i.auto_harvest
        /\ ~i.auto_harvest => ~i.harvest_raises}

BlocksAlways(i) == TRUE

\* Lines 93-141: with a session, the hook prints a block decision when
\* auto-harvest is off or the harvest raised.
Blocks(i) == ~i.auto_harvest \/ i.harvest_raises

\* stop_harvest main, one run. auto_harvest_and_persist appends what it
\* harvested to events.jsonl (here: at most one entry), also when it raises
\* afterwards; the auto-compaction of lines 143-166 follows on both branches
\* of a session.
StopHook ==
    /\ hook.ran = FALSE
    /\ cmp.op = "none"
    /\ \E i \in HookInputs :
          IF ~i.parsed \/ i.stop_hook_active
          THEN /\ hook' = [NoHook EXCEPT !.ran = TRUE, !.input = i, !.before = log]
               /\ UNCHANGED <<exists, log, archive>>
          ELSE IF ~i.has_session
          THEN /\ hook' = [NoHook EXCEPT !.ran = TRUE, !.input = i, !.before = log,
                                         !.scanned = i.auto_draft /\ i.transcript_path]
               /\ UNCHANGED <<exists, log, archive>>
          ELSE \E written \in {<<>>} \cup
                     {<<l>> : l \in {c \in CompactLines :
                         /\ i.auto_harvest
                         /\ Len(log) + Len(archive[1]) + Len(archive[2]) < MaxCompactLines
                         /\ c.id = "a" /\ c.ver = 1 /\ ~c.dep /\ c.created_at = 5}} :
                 LET harvested == log \o written
                     stats == get_compaction_stats(harvested)
                     done == compact(harvested, archive)
                 IN /\ hook' = [NoHook EXCEPT
                                  !.ran = TRUE, !.input = i, !.before = log,
                                  !.decision = IF Blocks(i) THEN "block" ELSE "none",
                                  !.harvested = i.auto_harvest,
                                  !.stats_read = TRUE,
                                  !.compacted = suggest_compact(stats)]
                    /\ exists' = (exists \/ written # <<>>)
                    /\ IF suggest_compact(stats)
                       THEN log' = done.log /\ archive' = done.archive
                       ELSE log' = harvested /\ archive' = archive
    /\ UNCHANGED <<rd, mark, db, run, last, scan, cmp>>

\* The hook process has exited.
HookDone ==
    /\ hook.ran
    /\ hook' = NoHook
    /\ UNCHANGED <<exists, log, rd, mark, db, run, last, scan, archive, cmp>>

NextHook == AppendVersion \/ StopHook \/ HookDone

SpecHook == InitLog /\ [][NextHook]_vars

\* ------------------------------------------- the log across its operations
\* The entry "a" is appended again, active or deprecated, with unchanged
\* text, between sync runs, hook runs and compactions.
AppendSynced ==
    /\ run.pc = "idle"
    /\ last = NoLast
    /\ cmp.op = "none"
    /\ hook.ran = FALSE
    /\ Len(log) + Len(archive[1]) + Len(archive[2]) < MaxCompactLines
    /\ \E l \in {c \in CompactLines : c.id = "a" /\ c.ver = 1 /\ c.created_at = 2} :
          log' = Append(log, l)
    /\ exists' = TRUE
    /\ UNCHANGED <<rd, mark, db, run, last, scan, archive, cmp, hook>>

\* Appends, sync runs and stop hook runs (with their auto-compaction), one
\* after the other.
NextLifecycle ==
    \/ AppendSynced
    \/ (hook.ran = FALSE /\ SyncStart)
    \/ SyncDeprecated
    \/ SyncActive
    \/ SyncEmbedBatch
    \/ SyncFinish
    \/ ReportDone
    \/ (run.pc = "idle" /\ last = NoLast /\ StopHook)
    \/ HookDone

SpecLifecycle == InitLog /\ [][NextLifecycle]_vars

\* ------------------------------------------------------------- properties
\* The log read directly, for the statements below.
LinesOf(id, from) ==
    {j \in (from + 1)..Len(log) : log[j].kind = "entry" /\ log[j].id = id}

Max(S) == CHOOSE x \in S : \A y \in S : y <= x

Least(S) == CHOOSE x \in S : \A y \in S : x <= y

\* The ids whose latest version in the log is not deprecated.
ActiveInLog == {id \in Ids : LinesOf(id, 0) # {} /\ ~log[Max(LinesOf(id, 0))].dep}

\* The 0-based line a call starts to parse at.
ScanFrom(call) ==
    IF call.byte_offset > 0
    THEN Least({k \in 0..Len(log) : k = Len(log) \/ Offset(log, k) >= call.byte_offset})
    ELSE call.start_line

Keys(entries) == {id \in Ids : entries[id].present}

\* C1 (retry-safety): a sync run that returns with at least one recorded
\* error leaves the stored cursor at the value it had before the run, so a
\* following non-forced run starts at the same byte.
RetrySafety ==
    (last.outcome = "returned" /\ last.r.report.errors # <<>>)
        => db.cursor = last.r.cursor_before

\* C1 witness: a run stored one entry, failed on another and returned, at
\* a cursor a former run had set.
RetrySafetyWitness ==
    /\ last.outcome = "returned"
    /\ last.r.report.errors # <<>>
    /\ last.r.stored # {}
    /\ last.r.cursor_before > 0
    /\ db.cursor = last.r.cursor_before

\* C2 (last-write-wins): a read that returns maps every id with a valid
\* line in the scanned range to the version on the highest such line,
\* whatever the versions hold.
LastWriteWins ==
    (rd.called /\ rd.res.status = "ok")
        => \A id \in Ids :
              LET S == LinesOf(id, ScanFrom(rd))
              IN S # {} => /\ rd.res.entries[id].present
                           /\ rd.res.entries[id].ver = log[Max(S)].ver
                           /\ rd.res.entries[id].dep = log[Max(S)].dep

\* C2 witness: an id read with three versions, the last one older in
\* content than the one before it and kept.
LastWriteWinsWitness ==
    /\ rd.called
    /\ rd.res.status = "ok"
    /\ \E id \in Ids :
          LET S == LinesOf(id, ScanFrom(rd))
          IN /\ Cardinality(S) = 3
             /\ log[Max(S)].ver < log[Max(S \ {Max(S)})].ver
             /\ rd.res.entries[id].ver = log[Max(S)].ver

\* C7 (byte-offset line count), as the specification states it: a read of an existing log with
\* byte_offset > 0 returns total_lines = 0.
ByteOffsetTotalLinesZero ==
    (rd.called /\ exists /\ rd.byte_offset > 0 /\ rd.res.status = "ok")
        => rd.res.total_lines = 0

\* C8 (incremental read): a read from the end offset a full read returned,
\* after lines were appended, returns exactly the ids of the valid appended
\* lines, each with its latest appended version.
IncrementalReadExact ==
    (rd.called /\ mark.set /\ rd.byte_offset = mark.end /\ rd.res.status = "ok")
        => /\ Keys(rd.res.entries) = {id \in Ids : LinesOf(id, mark.lines) # {}}
           /\ \A id \in Keys(rd.res.entries) :
                 rd.res.entries[id].ver = log[Max(LinesOf(id, mark.lines))].ver

\* C8 witness: the full read saw an id that no appended line carries, the
\* read from its end offset returns the appended id alone.
IncrementalReadWitness ==
    /\ rd.called
    /\ mark.set
    /\ mark.end > 0
    /\ rd.byte_offset = mark.end
    /\ rd.res.status = "ok"
    /\ Len(log) > mark.lines
    /\ \E id \in Ids : LinesOf(id, 0) # {} /\ LinesOf(id, mark.lines) = {}
                        /\ ~rd.res.entries[id].present
    /\ Keys(rd.res.entries) # {}

\* C9 (corrupt-line tolerance), as the specification states it: whatever the lines hold, a read
\* without an operating-system failure does not raise and returns every id
\* that has a valid line in the scanned range.
CorruptLineTolerance ==
    (rd.called /\ exists /\ rd.fault = NoFault)
        => /\ rd.res.status = "ok"
           /\ \A id \in Ids : LinesOf(id, ScanFrom(rd)) # {} => rd.res.entries[id].present

\* C10 (storage-unavailable fallback), as the specification states it: a read of a missing
\* file, or one the operating system fails at any point, returns the empty
\* state with total_lines 0 and end_byte_offset 0.
StorageUnavailableFallback ==
    (rd.called /\ rd.res.status \in {"missing", "oserror"})
        => /\ Keys(rd.res.entries) = {}
           /\ rd.res.total_lines = 0
           /\ rd.res.end_offset = 0

\* The hash of the text of id's latest version in the log.
LatestHash(id) == _compute_text_hash(log[Max(LinesOf(id, 0))].ver)

HasCurrentRecord(id) == db.vectors[id].present /\ db.vectors[id].hash = LatestHash(id)

RetryConvergence ==
    LET P == last.r.prev
    IN (/\ last.outcome = "returned"
        /\ P.valid /\ P.errors > 0 /\ P.embedder
        /\ last.r.embedder
        /\ last.r.byte_cursor = P.byte_cursor
        /\ last.r.report.errors = <<>>
        /\ ~last.r.short)
        => /\ P.stored \subseteq last.r.skipped
           /\ P.failed \subseteq last.r.stored
           /\ Content(db) = P.ideal

\* C4 witness: the failed run stored one entry and failed on the other;
\* the retry skipped the first and stored the second.
RetryConvergenceWitness ==
    LET P == last.r.prev
    IN /\ last.outcome = "returned"
       /\ P.valid /\ P.errors > 0 /\ P.embedder
       /\ last.r.embedder
       /\ last.r.byte_cursor = P.byte_cursor
       /\ last.r.report.errors = <<>>
       /\ ~last.r.short
       /\ P.stored # {} /\ P.failed # {}
       /\ P.stored \subseteq last.r.skipped
       /\ P.failed \subseteq last.r.stored
       /\ db.cursor = FileSize(log)

\* C5 (interruption safety): a run writes the cursor at most once and as
\* its last store mutation; while a run is in progress, and after a run
\* that ended abnormally, the stored cursor has the value it had before.
InterruptionSafety ==
    /\ db.cursor_writes <= 1
    /\ db.cursor_writes = 1 => db.cursor_write_at = db.writes
    /\ run.pc # "idle" => (db.cursor = run.cursor_before /\ db.cursor_writes = 0)
    /\ last.outcome \in {"aborted", "raised"} =>
          (db.cursor = last.r.cursor_before /\ db.cursor_writes = 0)

\* C5 witness: a run that had already changed the store ended abnormally
\* and the cursor a former run had set stands.
InterruptionSafetyWitness ==
    /\ last.outcome = "aborted"
    /\ db.writes > 0
    /\ last.r.cursor_before > 0
    /\ db.cursor = last.r.cursor_before

\* C6 (batch failure isolation): in a run that returned, every batch of the
\* queue was submitted in order; a batch whose call failed left exactly one
\* error and no SyncRecord for its entries; a batch answered in full whose
\* upserts did not fail has its entries stored.
BatchFailureIsolation ==
    LET R == last.r
        B == R.batches
        E == R.report.errors
    IN (last.outcome = "returned" /\ R.embedder)
        => /\ Len(B) * R.batch_size >= Len(R.to_embed)
           /\ \A i \in 1..Len(B) :
                 /\ B[i].start = (i - 1) * R.batch_size
                 /\ B[i].items = SubSeq(R.to_embed, B[i].start + 1,
                                         Min(B[i].start + R.batch_size, Len(R.to_embed)))
                 /\ B[i].items # <<>>
                 /\ ~B[i].ok =>
                       /\ Cardinality({k \in 1..Len(E) : E[k] = BatchError(B[i].start)}) = 1
                       /\ \A id \in SeqToSet(B[i].items) :
                             id \notin R.stored /\ ~HasCurrentRecord(id)
                 /\ (B[i].ok /\ B[i].n = Len(B[i].items)
                      /\ SeqToSet(B[i].items) \cap R.failed = {}) =>
                       \A id \in SeqToSet(B[i].items) :
                             id \in R.stored /\ HasCurrentRecord(id)
           /\ Cardinality({k \in 1..Len(E) : E[k].what = "batch"})
                = Cardinality({i \in 1..Len(B) : ~B[i].ok})

\* C6 witness: the first batch failed, the second was submitted and stored.
BatchFailureIsolationWitness ==
    /\ last.outcome = "returned"
    /\ Len(last.r.batches) = 2
    /\ ~last.r.batches[1].ok
    /\ last.r.batches[2].ok
    /\ SeqToSet(last.r.batches[2].items) \subseteq last.r.stored
    /\ Len(last.r.report.errors) = 1

\* C11 (end offset): a read of a log that meets no OS failure and returns,
\* on the standard path with any start_line or from a byte offset, returns
\* the byte size of the file as end_byte_offset.
EndOffsetIsFileSize ==
    (rd.called /\ exists /\ rd.res.status = "ok")
        => rd.res.end_offset = FileSize(log)

\* C11 witness: a read from a byte offset inside the second line of a log
\* with a blank line and two entries returned the size of the file.
EndOffsetWitness ==
    /\ rd.called /\ rd.res.status = "ok"
    /\ Len(log) = 3
    /\ log[1].kind = "blank" /\ log[2].kind = "entry" /\ log[3].kind = "entry"
    /\ rd.byte_offset = 2
    /\ rd.res.end_offset = 7
    /\ Keys(rd.res.entries) # {}

\* The lines of id at or after byte b of the log.
LinesFrom(id, b) == {j \in LinesOf(id, 0) : Offset(log, j - 1) >= b}

\* The ids whose latest version at or after byte b is deprecated.
DeprecatedInRange(b) ==
    {id \in Ids : LinesFrom(id, b) # {} /\ log[Max(LinesFrom(id, b))].dep}

\* C12 (deprecated handling): after a run that returned, every id whose
\* latest version in the scanned range is deprecated has no full-text
\* projection and its SyncRecord, if one exists, is marked deprecated; the
\* run made no upsert_fts and no upsert_vector for it and counted it as
\* deprecated; a repeated run leaves its SyncRecord and projection as the
\* run before left them.
DeprecatedHandling ==
    LET R == last.r
        P == last.r.prev
    IN last.outcome = "returned" =>
         /\ R.report.entries_deprecated = Cardinality(DeprecatedInRange(R.byte_cursor))
         /\ \A id \in DeprecatedInRange(R.byte_cursor) :
               /\ db.fts[id] = 0
               /\ db.vectors[id].present => db.vectors[id].dep
               /\ id \notin R.indexed
               /\ id \notin R.stored
               /\ id \notin R.skipped
               /\ (P.valid /\ id \in DeprecatedInRange(P.byte_cursor)) =>
                     /\ db.vectors[id] = P.after.vectors[id]
                     /\ db.fts[id] = P.after.fts[id]

\* C12 witness: a forced-full run over a log whose first line is an active
\* version that an earlier run stored and whose second line deprecates the
\* same id marked the record and removed the projection.
DeprecatedHandlingWitness ==
    /\ last.outcome = "returned"
    /\ last.r.force_full
    /\ \E id \in Ids :
          /\ LinesOf(id, 0) = {1, 2}
          /\ ~log[1].dep /\ log[2].dep
          /\ db.vectors[id].present /\ db.vectors[id].dep
          /\ db.fts[id] = 0
    /\ last.r.report.entries_deprecated = 1
    /\ last.r.indexed = {}

\* The ids whose latest version at or after byte b is not deprecated.
ActiveInRange(b) ==
    {id \in Ids : LinesFrom(id, b) # {} /\ ~log[Max(LinesFrom(id, b))].dep}

\* C13 (full-text indexing without embedder): a run without embedder that
\* returned has upserted the full-text projection of exactly the active
\* entries of the scanned range that are new or changed, counted each in
\* entries_fts_only, skipped the others, made no vector upsert and reports
\* entries_added = entries_updated = 0.
FtsWithoutEmbedder ==
    LET R == last.r
        A == ActiveInRange(R.byte_cursor)
    IN (last.outcome = "returned" /\ ~R.embedder) =>
         /\ R.indexed = {id \in A : needs_update(db, id, LatestHash(id))}
         /\ R.skipped = A \ R.indexed
         /\ \A id \in R.indexed :
               db.fts[id] = build_fts_fields(log[Max(LinesOf(id, 0))])
         /\ R.report.entries_fts_only = Cardinality(R.indexed)
         /\ R.report.entries_skipped = Cardinality(R.skipped)
         /\ R.stored = {} /\ R.to_embed = <<>> /\ R.batches = <<>>
         /\ R.report.entries_added = 0 /\ R.report.entries_updated = 0
         /\ R.report.errors = <<>>
         /\ db.writes = IF R.report.entries_scanned = 0 THEN 0
                        ELSE 2 * R.report.entries_deprecated
                             + R.report.entries_fts_only + 1

\* C13 witness: a run without embedder indexed one entry that had no
\* SyncRecord and skipped one an earlier run had stored.
FtsWithoutEmbedderWitness ==
    /\ last.outcome = "returned"
    /\ ~last.r.embedder
    /\ last.r.report.entries_fts_only = 1
    /\ last.r.report.entries_skipped = 1
    /\ \E id \in last.r.indexed : db.fts[id] # 0 /\ ~db.vectors[id].present

\* The entries a step of the store loop stored.
NewlyStored == run'.stored \ run.stored

\* C14 (added versus updated): every step of the store loop raises
\* entries_added by the number of entries it stored whose id had no
\* SyncRecord before the upsert and entries_updated by the number of those
\* whose id had one, and leaves a SyncRecord for each; the two counters
\* together always count the stored entries once each.
AddedVersusUpdated ==
    /\ [](run.report.entries_added + run.report.entries_updated
             = Cardinality(run.stored))
    /\ [][(run.pc = "embed" /\ run'.pc \in {"embed", "finish"}) =>
            /\ run'.report.entries_added - run.report.entries_added
                 = Cardinality({id \in NewlyStored : ~has_vector(db, id)})
            /\ run'.report.entries_updated - run.report.entries_updated
                 = Cardinality({id \in NewlyStored : has_vector(db, id)})
            /\ \A id \in NewlyStored : has_vector(db', id)]_vars

\* C14 witness: a run stored a changed version of an id that had a
\* SyncRecord and counted it as updated, not as added.
AddedVersusUpdatedWitness ==
    /\ last.outcome = "returned"
    /\ Cardinality(last.r.stored) = 1
    /\ last.r.report.entries_updated = 1
    /\ last.r.report.entries_added = 0
    /\ \E id \in last.r.stored : LinesOf(id, 0) = {1, 2} /\ HasCurrentRecord(id)

\* C15 (cursor monotonicity), as the specification states it: no step of
\* any sequence of appends and sync runs lowers the stored cursor.
CursorMonotonic == [][db'.cursor >= db.cursor]_vars

\* Candidate c is a near-duplicate of the latest version of some id of the log.
DuplicatesLog(c) ==
    \E id \in Ids :
        /\ LinesOf(id, 0) # {}
        /\ Similarity(c.text, log[Max(LinesOf(id, 0))].ver) >= DedupThreshold

\* The positions of the schema-valid candidates of a batch.
ValidAt(batch) == {i \in 1..Len(batch) : batch[i].id # "" /\ batch[i].fields}

\* C16 (cross-batch dedup ordering): when the schema-valid candidates of a
\* batch are two that are near-identical to each other and neither is a
\* near-duplicate of an entry of the log, batch_validate puts the earlier
\* one in valid and the later one in duplicates.
CrossDedupOrdering ==
    (scan.op = "validate") =>
        \A i, j \in 1..Len(scan.batch) :
            (/\ ValidAt(scan.batch) = {i, j} /\ i < j
             /\ Similarity(scan.batch[i].text, scan.batch[j].text) >= DedupThreshold
             /\ ~DuplicatesLog(scan.batch[i]) /\ ~DuplicatesLog(scan.batch[j]))
            => /\ scan.result.valid = <<scan.batch[i]>>
               /\ scan.result.duplicates = <<scan.batch[j]>>

\* C16 witness: two candidates with different ids and near-identical but
\* different texts, with an entry in the log that neither resembles.
CrossDedupOrderingWitness ==
    /\ scan.op = "validate"
    /\ Len(scan.batch) = 2
    /\ ValidAt(scan.batch) = {1, 2}
    /\ scan.batch[1].id # scan.batch[2].id
    /\ scan.batch[1].text = 4 /\ scan.batch[2].text = 3
    /\ Len(log) > 0 /\ log[1].kind = "entry"
    /\ ~DuplicatesLog(scan.batch[1]) /\ ~DuplicatesLog(scan.batch[2])
    /\ scan.result.valid = <<scan.batch[1]>>
    /\ scan.result.duplicates = <<scan.batch[2]>>

\* C17 (validation failures never reach the log), as the specification
\* states it: no line of the log is a candidate that misses a required field.
ValidationFailuresNeverWritten ==
    \A j \in 1..Len(log) : log[j].id # "" /\ log[j].fields

\* The waste ratio of the log the last compact_cli run found is at most 1.0:
\* total_lines / max(active_entries, 1) <= 1.
WasteAtMostOne ==
    LET stats == get_compaction_stats(cmp.before)
    IN stats.total_lines <= (IF stats.active_entries > 1 THEN stats.active_entries ELSE 1)

\* C18 (compaction is a no-op on a compact log): a compaction run on a log
\* whose waste ratio is at most 1.0 leaves the log as it was and leaves every
\* archive bucket as it was.
CompactionNoOp ==
    (cmp.op # "none" /\ WasteAtMostOne) =>
        (log = cmp.before /\ archive = cmp.archive_before)

\* C18 witness: a run on a log that holds one line, of a deprecated entry,
\* while a bucket already holds lines: the ratio is 1/1 and nothing changes.
CompactionNoOpWitness ==
    /\ cmp.op = "nothing"
    /\ Len(cmp.before) = 1 /\ cmp.before[1].dep
    /\ cmp.archive_before # NoArchive
    /\ log = cmp.before /\ archive = cmp.archive_before

\* How many lines of a file are the line l.
Count(l, lines) == Cardinality({j \in 1..Len(lines) : lines[j] = l})

\* What a compaction run appended to bucket q.
AppendedTo(q) ==
    SubSeq(archive[q], Len(cmp.archive_before[q]) + 1, Len(archive[q]))

\* C19 (archive completeness): after a compaction run the buckets still
\* begin with what they held, each line of the log before the run occurs as
\* often in the rewritten log and the appended lines together as it did in
\* the log, and each appended line is in the bucket of its own created_at
\* quarter.
ArchiveCompleteness ==
    (cmp.op # "none") =>
        /\ \A q \in Quarters :
              /\ Len(archive[q]) >= Len(cmp.archive_before[q])
              /\ SubSeq(archive[q], 1, Len(cmp.archive_before[q])) = cmp.archive_before[q]
              /\ \A k \in 1..Len(AppendedTo(q)) :
                    QuarterOf(AppendedTo(q)[k].created_at) = q
        /\ \A l \in CompactLines :
              Count(l, cmp.before) =
                  Count(l, log) + Count(l, AppendedTo(1)) + Count(l, AppendedTo(2))

\* C19 witness: a run that removed two equal lines of one quarter and a line
\* of the other quarter.
ArchiveCompletenessWitness ==
    /\ cmp.op = "compacted"
    /\ Len(cmp.before) = 3 /\ log = <<>>
    /\ cmp.before[1] = cmp.before[2]
    /\ cmp.before[3].id = cmp.before[1].id /\ cmp.before[3].dep
    /\ cmp.before[3].created_at # cmp.before[1].created_at
    /\ Len(AppendedTo(1)) + Len(AppendedTo(2)) = 3
    /\ AppendedTo(1) # <<>> /\ AppendedTo(2) # <<>>

\* The lines of the log before the run that hold the latest version of an
\* id whose latest version is not deprecated.
LatestActive ==
    {j \in 1..Len(cmp.before) :
        /\ ~cmp.before[j].dep
        /\ \A i \in 1..Len(cmp.before) : cmp.before[i].id = cmp.before[j].id => i <= j}

\* The log holds exactly the lines LatestActive of the log before the run,
\* in their order.
HoldsLatestActive ==
    /\ Len(log) = Cardinality(LatestActive)
    /\ \E f \in [1..Len(log) -> 1..Len(cmp.before)] :
          /\ \A i \in 1..Len(log) : f[i] \in LatestActive /\ log[i] = cmp.before[f[i]]
          /\ \A i, k \in 1..Len(log) : i < k => f[i] < f[k]

\* C20 (compaction partition), as the specification states it: after a
\* compaction run the log holds exactly the latest-version line of each id
\* whose latest version is not deprecated, in the original order.
CompactionPartition ==
    (cmp.op # "none") => HoldsLatestActive

\* C21 (waste ratio soundness), as the specification states it: a log whose
\* waste ratio total_lines / max(active_entries, 1) is at most 1.0 holds no
\* superseded line and no id whose latest version is deprecated.
WasteRatioSoundness ==
    LET stats == get_compaction_stats(log)
    IN (stats.total_lines <= (IF stats.active_entries > 1 THEN stats.active_entries ELSE 1))
       => \A j \in 1..Len(log) :
            /\ \A i \in 1..Len(log) : log[i].id = log[j].id => i = j
            /\ ~log[j].dep

\* The lines of the entries of the batch committed last that can be
\* serialized, in input order.
SerializedLines ==
    LET good == SelectSeq(scan.batch, LAMBDA c : c.ser)
    IN [i \in 1..Len(good) |-> EntryLine(good[i])]

\* batch_write with an empty list creates no file and changes nothing.
EmptyBatchWritesNothing ==
    (scan.op = "commit" /\ scan.batch = <<>>) =>
        (log = scan.before /\ exists = scan.existed /\ scan.write = NoWrite)

\* C22 (append-only write): after batch_write the log is the previous
\* content followed by lines of the successfully serialized entries, in input
\* order: one line per such entry when no OSError is raised, the first k of
\* them when a write fails, none when open() fails; no existing line is
\* changed or removed, and an empty list creates no file and changes nothing.
AppendOnlyWrite ==
    /\ (scan.op = "commit") =>
          /\ \E k \in 0..Len(SerializedLines) :
                log = scan.before \o SubSeq(SerializedLines, 1, k)
          /\ scan.fault.at = "never" => log = scan.before \o SerializedLines
          /\ scan.fault.at = "open" => (log = scan.before /\ exists = scan.existed)
    /\ EmptyBatchWritesNothing

\* C22 witness: a batch of one entry written after a line the log had.
AppendOnlyWriteWitness ==
    /\ scan.op = "commit"
    /\ scan.fault.at = "never"
    /\ Len(scan.before) = 1 /\ Len(scan.batch) = 1 /\ scan.batch[1].ser
    /\ log = <<scan.before[1], EntryLine(scan.batch[1])>>

\* C23 (per-item write errors), as the specification states it: an entry
\* that cannot be serialized adds one error string and no line and the other
\* entries are written; when the file can be opened, written_count plus the
\* number of errors is the number of entries, and written_count is the length
\* of entry_ids.
PerItemWriteErrors ==
    (scan.op = "commit" /\ scan.batch # <<>> /\ scan.fault.at # "open") =>
        /\ scan.write.written_count + Len(scan.write.errors) = Len(scan.batch)
        /\ scan.write.written_count = Len(scan.write.entry_ids)
        /\ Len(scan.write.errors) = Len(scan.batch) - Len(SerializedLines)
        /\ log = scan.before \o SerializedLines

\* C24 (standard-mode line count): a read with byte_offset = 0 that meets no
\* operating-system failure returns as total_lines the number of physical
\* lines of the file for every start_line, blank and malformed lines and the
\* lines before start_line counted, and returns an entry for exactly the ids
\* that have a valid line at index start_line or later, taken from such a
\* line.
StandardLineCount ==
    (rd.called /\ exists /\ rd.byte_offset = 0 /\ rd.res.status = "ok")
        => /\ rd.res.total_lines = Len(log)
           /\ Keys(rd.res.entries) = {id \in Ids : LinesOf(id, rd.start_line) # {}}
           /\ \A id \in Keys(rd.res.entries) :
                 /\ rd.res.entries[id].ver = log[Max(LinesOf(id, rd.start_line))].ver
                 /\ rd.track_lines => rd.res.entries[id].line >= rd.start_line

\* C24 witness: a read with start_line = 2 of a log that holds an entry, a
\* blank line and an entry of another id counted three lines and returned
\* the last entry only.
StandardLineCountWitness ==
    /\ rd.called /\ rd.res.status = "ok"
    /\ rd.byte_offset = 0 /\ rd.start_line = 2
    /\ Len(log) = 3
    /\ log[1].kind = "entry" /\ log[2].kind = "blank" /\ log[3].kind = "entry"
    /\ log[1].id # log[3].id
    /\ rd.res.total_lines = 3
    /\ Keys(rd.res.entries) = {log[3].id}

\* C25 (line tracking), as the specification states it: a read with
\* track_lines set, on the standard path or from a byte offset, returns each
\* entry with the 0-based index of the line it was taken from.
LineTracking ==
    (rd.called /\ rd.res.status = "ok" /\ rd.track_lines)
        => \A id \in Keys(rd.res.entries) :
              rd.res.entries[id].line = Max(LinesOf(id, ScanFrom(rd))) - 1

DeprecatedStep ==
    run.pc # "idle" /\ run'.report.entries_deprecated > run.report.entries_deprecated

ActiveStep ==
    run.pc # "idle" /\ run'.pc # "idle"
    /\ (run'.skipped # run.skipped \/ run'.indexed # run.indexed)

BatchStep ==
    run.pc # "idle" /\ Len(run'.batches) > Len(run.batches)

\* The counts of a returned run, from the log, the store and the outcomes.
CountsFollow ==
    LET R == last.r
        D == DeprecatedInRange(R.byte_cursor)
        A == ActiveInRange(R.byte_cursor)
    IN last.outcome = "returned" =>
         /\ R.report.entries_scanned = Cardinality(D \cup A)
         /\ R.report.entries_deprecated = Cardinality(D)
         /\ R.skipped \cup R.indexed = A /\ R.skipped \cap R.indexed = {}
         /\ R.report.entries_skipped = Cardinality(R.skipped)
         /\ R.report.entries_fts_only = (IF R.embedder THEN 0 ELSE Cardinality(R.indexed))
         /\ SeqToSet(R.to_embed) = (IF R.embedder THEN R.indexed ELSE {})
         /\ R.report.entries_added + R.report.entries_updated = Cardinality(R.stored)
         /\ Len(R.report.errors) =
               Cardinality({i \in 1..Len(R.batches) : ~R.batches[i].ok})
               + Cardinality(R.failed \ UNION {SeqToSet(R.batches[i].items) :
                                   i \in {k \in 1..Len(R.batches) : ~R.batches[k].ok}})

\* C27 (ordering within one sync run): a deprecated id is handled only while
\* no active entry has been compared or indexed and no batch submitted; an
\* active entry is compared or indexed only when every deprecated id has
\* been handled and before the first batch; a batch is submitted only when
\* both loops have ended, and it holds the next batch_size entries of the
\* queue; the counts of the report follow from the log, the store and what
\* the provider and the upserts did.
OrderingWithinRun ==
    /\ [][DeprecatedStep =>
            (run.skipped = {} /\ run.indexed = {} /\ run.batches = <<>>)]_vars
    /\ [][ActiveStep => (run.deprecated_ids = <<>> /\ run.batches = <<>>)]_vars
    /\ [][BatchStep =>
            /\ run.deprecated_ids = <<>> /\ run.active = <<>>
            /\ run'.to_embed = run.to_embed
            /\ Len(run'.batches) = Len(run.batches) + 1
            /\ LET b == run'.batches[Len(run'.batches)]
               IN /\ b.start = Len(run.batches) * run.batch_size
                  /\ b.items = SubSeq(run.to_embed, b.start + 1,
                                      Min(b.start + run.batch_size, Len(run.to_embed)))]_vars
    /\ []CountsFollow

\* C27 witness: a run handled a deprecated id, indexed an active entry and
\* submitted a batch.
OrderingWithinRunWitness ==
    /\ last.outcome = "returned"
    /\ last.r.report.entries_deprecated = 1
    /\ Cardinality(last.r.indexed) = 1
    /\ Len(last.r.batches) = 1

\* C28 (mode selection): a run reports mode "full" and scans from byte 0
\* when force_full is set or no cursor is stored; otherwise it reports mode
\* "incremental" and scans from the stored cursor, byte 0 when that cursor
\* is 0; when the read reaches the end of the file, the entries it scans are
\* those of the lines from that byte on.
ModeSelection ==
    LET R == last.r
    IN last.outcome = "returned" =>
         /\ R.report.mode = "full" <=> (R.force_full \/ R.cursor_before = NoCursor)
         /\ R.report.mode = "full" => R.byte_cursor = 0
         /\ R.report.mode = "incremental" =>
               (R.report.mode # "full" /\ R.byte_cursor = R.cursor_before)
         /\ R.report.mode \in {"full", "incremental"}
         /\ R.end_byte_offset = FileSize(log) =>
               R.report.entries_scanned =
                   Cardinality(DeprecatedInRange(R.byte_cursor)
                               \cup ActiveInRange(R.byte_cursor))

\* C28 witness: a run that was not forced full found the cursor 0 stored,
\* reported mode "incremental" and scanned the two entries of the log from
\* byte 0.
ModeSelectionWitness ==
    /\ last.outcome = "returned"
    /\ ~last.r.force_full
    /\ last.r.cursor_before = 0
    /\ last.r.report.mode = "incremental"
    /\ last.r.byte_cursor = 0
    /\ last.r.end_byte_offset = FileSize(log)
    /\ last.r.report.entries_scanned = 2

RECURSIVE Flatten(_)
\* The items of the batches, one after the other.
Flatten(batches) ==
    IF batches = <<>> THEN <<>>
    ELSE Flatten(SubSeq(batches, 1, Len(batches) - 1)) \o batches[Len(batches)].items

\* C29 (batching): a run with an embedder that returned has queued exactly
\* the active entries of the scanned range that needed an update, each once;
\* the batches handed to the provider, one call each, are the queue cut
\* into pieces of at most batch_size texts, ceil(n / batch_size) of them;
\* no entry skipped by hash match is in a batch.
Batching ==
    LET R == last.r
        n == Len(R.to_embed)
    IN (last.outcome = "returned" /\ R.embedder) =>
         /\ SeqToSet(R.to_embed) = ActiveInRange(R.byte_cursor) \ R.skipped
         /\ Cardinality(SeqToSet(R.to_embed)) = n
         /\ Flatten(R.batches) = R.to_embed
         /\ \A i \in 1..Len(R.batches) :
               /\ Len(R.batches[i].items) <= R.batch_size
               /\ Len(R.batches[i].items) >= 1
               /\ SeqToSet(R.batches[i].items) \cap R.skipped = {}
         /\ (Len(R.batches) - 1) * R.batch_size < n \/ n = 0
         /\ Len(R.batches) * R.batch_size >= n
         /\ n = 0 => R.batches = <<>>

\* C29 witness: two queued entries went to the provider in two batches of
\* one text.
BatchingWitness ==
    /\ last.outcome = "returned"
    /\ last.r.embedder
    /\ last.r.batch_size = 1
    /\ Len(last.r.to_embed) = 2
    /\ Len(last.r.batches) = 2
    /\ last.r.batches[1].items = <<last.r.to_embed[1]>>
    /\ last.r.batches[2].items = <<last.r.to_embed[2]>>

\* C30 (SyncRecords are never deleted): no step removes the SyncRecord of an
\* id; the handling of a deprecated id leaves the hash of its record as it
\* was, sets its deprecated flag and removes its full-text projection, and
\* creates no record where none was.
RecordsNeverDeleted ==
    /\ [][\A id \in Ids : db.vectors[id].present => db'.vectors[id].present]_vars
    /\ [][DeprecatedStep =>
            LET id == Head(run.deprecated_ids)
            IN /\ db'.vectors[id].present = db.vectors[id].present
               /\ db'.vectors[id].hash = db.vectors[id].hash
               /\ db.vectors[id].present => db'.vectors[id].dep
               /\ db'.fts[id] = 0
               /\ \A other \in Ids \ {id} :
                     /\ db'.vectors[other] = db.vectors[other]
                     /\ db'.fts[other] = db.fts[other]]_vars

\* C30 witness: a run has handled the deprecation of an id that an earlier
\* run had stored and indexed: the record is there, flagged, with its hash,
\* and the projection is gone.
RecordsNeverDeletedWitness ==
    /\ last.outcome = "returned"
    /\ last.r.report.entries_deprecated = 1
    /\ \E id \in DeprecatedInRange(last.r.byte_cursor) :
          /\ db.vectors[id].present /\ db.vectors[id].dep
          /\ db.vectors[id].hash # NoHash
          /\ db.fts[id] = 0

\* C31 (stop-hook loop guard): a hook run whose input has stop_hook_active
\* set prints no block decision, runs neither harvest nor transcript scan
\* nor compaction and leaves the log and the archive as they were; in every
\* run a block decision is printed only when a session exists and
\* auto-harvest is off or the harvest raised.
StopHookLoopGuard ==
    /\ (hook.ran /\ hook.input.stop_hook_active) =>
          /\ hook.decision = "none"
          /\ ~hook.harvested /\ ~hook.scanned /\ ~hook.stats_read /\ ~hook.compacted
          /\ log = hook.before
    /\ (hook.ran /\ hook.decision = "block") =>
          /\ hook.input.parsed /\ ~hook.input.stop_hook_active
          /\ hook.input.has_session
          /\ (~hook.input.auto_harvest \/ hook.input.harvest_raises)

\* C31 witness: a run with stop_hook_active set on a log that the
\* auto-compaction would have compacted.
StopHookLoopGuardWitness ==
    /\ hook.ran /\ hook.input.stop_hook_active
    /\ suggest_compact(get_compaction_stats(log))
    /\ hook.decision = "none"

\* C32 (cursor reaches end of file): after a sync run that returned with no
\* recorded error the stored cursor is the end-of-file offset the run
\* observed, also when the scanned range held no entry.
CursorReachesEndOfFile ==
    (last.outcome = "returned" /\ last.r.report.errors = <<>>) =>
        db.cursor = last.r.end_byte_offset

\* C33 (projection matches log state): after appends and sync runs (no
\* compaction has rewritten the log) that end with an error-free sync run
\* whose cursor covers the whole log, an id has a full-text projection
\* exactly when its latest version in the log is not deprecated.
ProjectionMatchesLog ==
    (/\ archive = NoArchive
     /\ last.outcome = "returned" /\ last.r.report.errors = <<>>
     /\ db.cursor = FileSize(log)) =>
        \A id \in Ids : (db.fts[id] # 0) <=> (id \in ActiveInLog)

\* C34 (cursor stays inside the log): in every state reached by appends,
\* sync runs and compactions the stored cursor, when there is one, is at
\* most the byte size of the log.
CursorInsideLog == db.cursor <= FileSize(log)

\* C35 (report accounting): in the report of a sync run that returned with
\* no recorded error, entries_scanned is the sum of entries_deprecated,
\* entries_skipped, entries_fts_only, entries_added and entries_updated,
\* whatever the provider answered.
ReportAccounting ==
    (last.outcome = "returned" /\ last.r.report.errors = <<>>) =>
        last.r.report.entries_scanned =
            last.r.report.entries_deprecated + last.r.report.entries_skipped
            + last.r.report.entries_fts_only + last.r.report.entries_added
            + last.r.report.entries_updated

\* C36 (incremental equals full): when a read from the end offset that a
\* full read of the log L returned is made on an append-only extension L'
\* of L, the entries of the full read of L, overridden id by id with the
\* entries of the read from the offset, are the entries of a full read of L'.
IncrementalEqualsFull ==
    (rd.called /\ mark.set /\ rd.byte_offset = mark.end /\ rd.res.status = "ok") =>
        LET before == load_events_latest_wins(TRUE, SubSeq(log, 1, mark.lines),
                                              0, FALSE, 0, NoFault)
            whole == load_events_latest_wins(TRUE, log, 0, FALSE, 0, NoFault)
            merged == [id \in Ids |-> IF rd.res.entries[id].present
                                      THEN rd.res.entries[id]
                                      ELSE before.entries[id]]
        IN /\ whole.status = "ok"
           /\ \A id \in Ids :
                 /\ merged[id].present = whole.entries[id].present
                 /\ merged[id].ver = whole.entries[id].ver
                 /\ merged[id].dep = whole.entries[id].dep

\* C36 witness: the read from the offset returns a newer version of an id
\* the full read had seen, and the full read had seen another id that no
\* appended line carries.
IncrementalEqualsFullWitness ==
    /\ rd.called /\ mark.set /\ mark.end > 0
    /\ rd.byte_offset = mark.end /\ rd.res.status = "ok"
    /\ rd.res.entries["a"].present /\ ~rd.res.entries["b"].present
    /\ LinesOf("a", 0) \ LinesOf("a", mark.lines) # {}
    /\ LinesOf("b", 0) # {}
    /\ log[Max(LinesOf("a", 0))].ver # log[Least(LinesOf("a", 0))].ver

\* C37 (per-entry store failure isolation): in a run that returned, an
\* entry whose upsert_vector raised has exactly one error naming its id,
\* is counted neither as added nor as updated; every other entry the
\* provider answered, in the same batch and in later batches, has its
\* SyncRecord stored with the current hash; and the cursor is the one the
\* run found.
StoreFailureIsolation ==
    LET R == last.r
        E == R.report.errors
        Unstored == {id \in Ids : \E j \in 1..Len(E) : E[j] = StoreError(id)}
        Answered == {id \in Ids : \E k \in 1..Len(R.batches) :
                        /\ R.batches[k].ok
                        /\ \E p \in 1..R.batches[k].n : R.batches[k].items[p] = id}
    IN (last.outcome = "returned" /\ Unstored # {}) =>
          /\ \A id \in Unstored :
                Cardinality({j \in 1..Len(E) : E[j] = StoreError(id)}) = 1
          /\ Unstored \subseteq Answered
          /\ R.report.entries_added + R.report.entries_updated
                = Cardinality(Answered \ Unstored)
          /\ \A id \in Answered \ Unstored : HasCurrentRecord(id)
          /\ Flatten(R.batches) = R.to_embed
          /\ db.cursor = R.cursor_before
          /\ db.cursor_writes = 0

\* C37 witness: the upsert of the first queued entry raised and the second
\* queued entry, in the same batch or in the next one, was stored.
StoreFailureIsolationWitness ==
    /\ last.outcome = "returned"
    /\ Len(last.r.to_embed) = 2
    /\ last.r.report.errors = <<StoreError(last.r.to_embed[1])>>
    /\ HasCurrentRecord(last.r.to_embed[2])
    /\ ~db.vectors[last.r.to_embed[1]].present
    /\ last.r.report.entries_added = 1

\* C38 (batch_validate partition): the result of batch_validate lists every
\* candidate once: total is the number of inputs and the sum of the three
\* lists; invalid holds the schema-invalid candidates in input order, valid
\* and duplicates split the others, each in input order; a candidate is in
\* duplicates only because it resembles an entry of the log or a candidate
\* accepted before it; and the call leaves the log as it was.
BatchValidatePartition ==
    /\ [](scan.op = "validate" =>
            LET B == scan.batch
                R == scan.result
                Nth(S, k) == CHOOSE i \in S : Cardinality({j \in S : j <= i}) = k
                At(S) == [k \in 1..Cardinality(S) |-> B[Nth(S, k)]]
            IN /\ R.total = Len(B)
               /\ R.total = Len(R.valid) + Len(R.duplicates) + Len(R.invalid)
               /\ R.invalid = At((1..Len(B)) \ ValidAt(B))
               /\ \E S \in SUBSET ValidAt(B) :
                     /\ R.valid = At(S)
                     /\ R.duplicates = At(ValidAt(B) \ S)
                     /\ \A i \in ValidAt(B) \ S :
                           \/ DuplicatesLog(B[i])
                           \/ \E j \in S : j < i /\ Similarity(B[i].text, B[j].text)
                                                        >= DedupThreshold)
    /\ [][scan'.op = "validate" => (log' = log /\ exists' = exists)]_vars

\* C38 witness: a schema-invalid candidate comes first and the candidate
\* after it, with the same text, is accepted; the log holds an entry.
BatchValidatePartitionWitness ==
    /\ scan.op = "validate"
    /\ Len(scan.batch) = 2
    /\ ~scan.batch[1].fields
    /\ scan.batch[2].text = scan.batch[1].text
    /\ Len(log) > 0 /\ log[1].kind = "entry"
    /\ scan.result.invalid = <<scan.batch[1]>>
    /\ scan.result.valid = <<scan.batch[2]>>
    /\ scan.result.duplicates = <<>>

\* C39 (accepted batch is duplicate-free): in the result of batch_validate
\* no two candidates of valid have a similarity at or above the threshold,
\* and no candidate of valid has one with an entry of the log.
AcceptedBatchDuplicateFree ==
    (scan.op = "validate") =>
        LET V == scan.result.valid
        IN /\ \A i, j \in 1..Len(V) :
                 i < j => Similarity(V[i].text, V[j].text) < DedupThreshold
           /\ \A i \in 1..Len(V) : ~DuplicatesLog(V[i])

\* C40 (compaction preserves the resolved state and is idempotent): after
\* a compaction run the latest-wins state of the log is the latest-wins
\* state of the log before the run, restricted to the ids whose latest
\* version is not deprecated; and a second run made at once would change
\* neither the log nor an archive bucket.
CompactionPreservesState ==
    (cmp.op # "none") =>
        LET after == load_events_latest_wins(TRUE, log, 0, FALSE, 0, NoFault).entries
            before == load_events_latest_wins(TRUE, cmp.before, 0, FALSE, 0,
                                              NoFault).entries
            again == IF AlreadyCompact(get_compaction_stats(log))
                     THEN [log |-> log, archive |-> archive]
                     ELSE compact(log, archive)
        IN /\ \A id \in Ids :
                 /\ after[id].present = (before[id].present /\ ~before[id].dep)
                 /\ after[id].present =>
                       (after[id].ver = before[id].ver /\ ~after[id].dep)
           /\ again.log = log
           /\ again.archive = archive

====
